---- MODULE Spec2Model ----
(***************************************************************************)
(* Arbitrage detection engine of nobitex-arbitrage (src/src/triangles.ts). *)
(*                                                                         *)
(* The engine is a set of pure functions over a snapshot of MarketPair     *)
(* records.  The state machine below holds one snapshot (pairs) and the    *)
(* outcome of the last finder call made on it.  parseAllPairs is a call of *)
(* its own on a raw response, and the scanner loop of scripts/analyze.ts   *)
(* is a second machine over the variables declared after the finders'.     *)
(*                                                                         *)
(* Numbers.  A JavaScript Number is modelled as an exact rational          *)
(* [n |-> numerator, d |-> denominator] in lowest terms with d > 0; d = 0  *)
(* stands for a non-finite value (Infinity / NaN), which is what a         *)
(* division by zero produces.  IEEE-754 rounding is not modelled: every    *)
(* arithmetic operator below is the exact operation the source performs.   *)
(***************************************************************************)
EXTENDS Integers, Sequences, FiniteSets, TLC

VARIABLES pairs, called, args, result, threw

\* The scanner (scripts/analyze.ts): the wall clock, the module counter
\* scanCount, the activations of scan() with their `now` and the await they
\* are parked at, the lines of timeline.jsonl, how each finished activation
\* settled, where main() stands, the next due time of the interval timer,
\* and the --once and --interval options.
VARIABLES clock, scanCount, scans, timeline, settled, main, nextFire,
          ONCE, INTERVAL_S

finderVars == <<pairs, called, args, result, threw>>

scanVars == <<clock, scanCount, scans, timeline, settled, main, nextFire,
              ONCE, INTERVAL_S>>

vars == <<finderVars, scanVars>>

(***************************************************************************)
(* Exact rational arithmetic standing for JavaScript Number arithmetic.    *)
(***************************************************************************)
Abs(x) == IF x < 0 THEN -x ELSE x

RECURSIVE Gcd(_, _)
Gcd(a, b) == IF b = 0 THEN a ELSE Gcd(b, a % b)

NonFinite == [n |-> 1, d |-> 0]

R(n, d) ==
  IF d = 0 THEN NonFinite
  ELSE LET g == Gcd(Abs(n), Abs(d))
           s == IF d < 0 THEN -1 ELSE 1
       IN  [n |-> s * (n \div g), d |-> s * (d \div g)]

Num(k) == [n |-> k, d |-> 1]

isFinite(a) == a.d # 0

\* Operands are scaled to their least common denominator, and factors are
\* cancelled before multiplying, so that intermediate integers stay small.
Lcd(a, b) == (a.d \div Gcd(a.d, b.d)) * b.d

Scaled(a, l) == a.n * (l \div a.d)

Add(a, b) == IF a.d = 0 \/ b.d = 0 THEN NonFinite
             ELSE R(Scaled(a, Lcd(a, b)) + Scaled(b, Lcd(a, b)), Lcd(a, b))

Sub(a, b) == IF a.d = 0 \/ b.d = 0 THEN NonFinite
             ELSE R(Scaled(a, Lcd(a, b)) - Scaled(b, Lcd(a, b)), Lcd(a, b))

Mul(a, b) == IF a.d = 0 \/ b.d = 0 THEN NonFinite
             ELSE LET g1 == Gcd(Abs(a.n), b.d)
                      g2 == Gcd(Abs(b.n), a.d)
                  IN  R((a.n \div g1) * (b.n \div g2),
                        (a.d \div g2) * (b.d \div g1))

Div(a, b) == IF a.d = 0 \/ b.d = 0 THEN NonFinite
             ELSE IF b.n = 0 THEN NonFinite
             ELSE Mul(a, R(b.d, b.n))

\* a < b and a > b; any comparison with a non-finite value is false (NaN).
Lt(a, b) == /\ a.d # 0 /\ b.d # 0
            /\ Scaled(a, Lcd(a, b)) < Scaled(b, Lcd(a, b))

Gt(a, b) == Lt(b, a)

Le(a, b) == /\ a.d # 0 /\ b.d # 0
            /\ Scaled(a, Lcd(a, b)) <= Scaled(b, Lcd(a, b))

Min2PicksLarger(a, b) == IF a.d = 0 \/ b.d = 0 THEN NonFinite
                         ELSE IF Lt(b, a) THEN a ELSE b

\* Math.min of two values: NaN if either is NaN.
Min2(a, b) == IF a.d = 0 \/ b.d = 0 THEN NonFinite
              ELSE IF Lt(b, a) THEN b ELSE a

RECURSIVE MathMin(_)
MathMin(s) == IF Len(s) = 1 THEN s[1] ELSE Min2(s[1], MathMin(Tail(s)))


Zero == Num(0)

IntMin(a, b) == IF a < b THEN a ELSE b

(***************************************************************************)
(* Array helpers.                                                          *)
(***************************************************************************)
\* Array.prototype.sort((a, b) => key(b) - key(a)): a stable sort by
\* descending key.  keys[i] is the key of s[i].  The element at s[i] lands
\* after every element with a greater key and after the earlier elements
\* with an equal key.
SortPos(keys, i) ==
  1 + Cardinality({j \in 1..Len(keys) : Gt(keys[j], keys[i])})
    + Cardinality({j \in 1..(i - 1) : keys[j] = keys[i]})

SortDesc(s, keys) ==
  LET pos == [i \in 1..Len(s) |-> SortPos(keys, i)]
  IN  [p \in 1..Len(s) |-> s[CHOOSE i \in 1..Len(s) : pos[i] = p]]

SliceOneMore(s, n) == SubSeq(s, 1, IntMin(n + 1, Len(s)))

\* Array.prototype.slice(0, n) for an integer n >= 0.
Slice(s, n) == SubSeq(s, 1, IntMin(n, Len(s)))

RECURSIVE Flatten(_)
Flatten(ss) == IF ss = <<>> THEN <<>> ELSE Head(ss) \o Flatten(Tail(ss))

(***************************************************************************)
(* The "asset:quote" index built at the top of each finder.                *)
(***************************************************************************)
IdxHas(ps, asset, quote) ==
  \E i \in 1..Len(ps) : ps[i].asset = asset /\ ps[i].quote = quote

\* What Map.get returns for a key that was never set.
Undefined ==
  [symbol |-> "undefined", asset |-> "undefined", quote |-> "undefined",
   bestBid |-> NonFinite, bestBidQty |-> NonFinite,
   bestAsk |-> NonFinite, bestAskQty |-> NonFinite]

IsUndefined(p) == p.symbol = "undefined"

\* Map.set overwrites: the last pair with the key is the one kept.
IdxGet(ps, asset, quote) ==
  LET hit(i) == ps[i].asset = asset /\ ps[i].quote = quote
  IN  IF IdxHas(ps, asset, quote)
      THEN ps[CHOOSE i \in 1..Len(ps) :
                   hit(i) /\ \A j \in (i + 1)..Len(ps) : ~hit(j)]
      ELSE Undefined

\* The outcome of a call that ends in an uncaught TypeError (a property
\* read on undefined) instead of returning a list.
TypeError == <<[type |-> "TypeError"]>>

IsThrown(r) == Len(r) = 1 /\ r[1].type = "TypeError"

(***************************************************************************)
(* buildAssetEntries                                                       *)
(***************************************************************************)
IsEntryIrtOnly(ps, p, baseCurrency) ==
  ~(p.quote # "IRT" \/ p.asset = baseCurrency)

IsEntryNeedsBridge(ps, p, baseCurrency) ==
  /\ ~(p.quote # "IRT" \/ p.asset = baseCurrency)
  /\ IdxHas(ps, p.asset, baseCurrency)
  /\ IdxHas(ps, baseCurrency, "IRT")

IsEntry(ps, p, baseCurrency) ==
  /\ ~(p.quote # "IRT" \/ p.asset = baseCurrency)
  /\ IdxHas(ps, p.asset, baseCurrency)

buildAssetEntries(ps, baseCurrency) ==
  LET sel == SelectSeq(ps, LAMBDA p : IsEntry(ps, p, baseCurrency))
  IN  [i \in 1..Len(sel) |->
         [asset |-> sel[i].asset,
          irt   |-> sel[i],
          base  |-> IdxGet(ps, sel[i].asset, baseCurrency)]]

(***************************************************************************)
(* Pieces shared by the candidate computations.                            *)
(***************************************************************************)
Leg(p, side, qtyUnit) ==
  [pair         |-> p.symbol,
   side         |-> side,
   price        |-> IF side = "buy" THEN p.bestAsk ELSE p.bestBid,
   availableQty |-> IF side = "buy" THEN p.bestAskQty ELSE p.bestBidQty,
   qtyUnit      |-> qtyUnit]

GrossPct(rate) == Mul(Sub(rate, Num(1)), Num(100))

NetPctAddsFee(grossPct, totalFee) == Add(grossPct, totalFee)

NetPct(grossPct, totalFee) == Sub(grossPct, totalFee)

ProfitForgetsPercent(netPct, vol) == Mul(netPct, vol)

Profit(netPct, vol) == Mul(Div(netPct, Num(100)), vol)

Bottleneck3LastWins(maxX, l1, l2, l3) ==
  IF isFinite(maxX) /\ maxX = l3 THEN 2
  ELSE IF isFinite(maxX) /\ maxX = l2 THEN 1 ELSE 0

\* bn = maxX === l1 ? 0 : maxX === l2 ? 1 : 2   (a NaN equals nothing)
Bottleneck3(maxX, l1, l2, l3) ==
  IF isFinite(maxX) /\ maxX = l1 THEN 0
  ELSE IF isFinite(maxX) /\ maxX = l2 THEN 1 ELSE 2

\* bn = maxX === l1 ? 0 : maxX === l2 ? 1 : maxX === l3 ? 2 : 3
Bottleneck4(maxX, l1, l2, l3, l4) ==
  IF isFinite(maxX) /\ maxX = l1 THEN 0
  ELSE IF isFinite(maxX) /\ maxX = l2 THEN 1
  ELSE IF isFinite(maxX) /\ maxX = l3 THEN 2 ELSE 3

EmittedOnlyAtGain(rate, vol) ==
  isFinite(rate) /\ Gt(vol, Zero) /\ Gt(rate, Num(1))

EmittedIgnoresVolume(rate, vol) == isFinite(rate)

\* isFinite(rate) && vol > 0
Emitted(rate, vol) == isFinite(rate) /\ Gt(vol, Zero)

(***************************************************************************)
(* Strategy 1 - Triangle (3 legs).  Each candidate operator returns the    *)
(* values the loop body computes: the leg capacities, maxX, and the        *)
(* Opportunity that is pushed when emit holds.                             *)
(***************************************************************************)
TriangleFeeFourLegs(feeRatePct) == Mul(Num(4), feeRatePct)

TriangleFee(feeRatePct) == Mul(Num(3), feeRatePct)

\* CW: IRT -> X -> BASE -> IRT
cwCandidate(e, bridge, baseCurrency, totalFee) ==
  LET xIrt     == e.irt
      xBase    == e.base
      rate     == Div(Mul(xBase.bestBid, bridge.bestBid), xIrt.bestAsk)
      grossPct == GrossPct(rate)
      netPct   == NetPct(grossPct, totalFee)
      l1       == xIrt.bestAskQty
      l2       == xBase.bestBidQty
      l3       == IF Gt(xBase.bestBid, Zero)
                  THEN Div(bridge.bestBidQty, xBase.bestBid) ELSE Zero
      maxX     == MathMin(<<l1, l2, l3>>)
      vol      == Mul(maxX, xIrt.bestAsk)
      profit   == Profit(netPct, vol)
      bn       == Bottleneck3(maxX, l1, l2, l3)
  IN  [emit |-> Emitted(rate, vol),
       caps |-> <<l1, l2, l3>>,
       maxX |-> maxX,
       opp  |-> [type |-> "triangle", assets |-> <<e.asset>>,
                 base |-> baseCurrency, direction |-> "cw",
                 legs |-> <<Leg(xIrt, "buy", e.asset),
                            Leg(xBase, "sell", e.asset),
                            Leg(bridge, "sell", baseCurrency)>>,
                 rate |-> rate, grossPct |-> grossPct, feePct |-> totalFee,
                 netPct |-> netPct, maxVolumeIRT |-> vol,
                 expectedProfitIRT |-> profit, bottleneckLeg |-> bn]]

\* CCW: IRT -> BASE -> X -> IRT
ccwCandidate(e, bridge, baseCurrency, totalFee) ==
  LET xIrt     == e.irt
      xBase    == e.base
      rate     == Div(xIrt.bestBid, Mul(xBase.bestAsk, bridge.bestAsk))
      grossPct == GrossPct(rate)
      netPct   == NetPct(grossPct, totalFee)
      l1       == IF Gt(xBase.bestAsk, Zero)
                  THEN Div(bridge.bestAskQty, xBase.bestAsk) ELSE Zero
      l2       == xBase.bestAskQty
      l3       == xIrt.bestBidQty
      maxX     == MathMin(<<l1, l2, l3>>)
      vol      == Mul(Mul(maxX, xBase.bestAsk), bridge.bestAsk)
      profit   == Profit(netPct, vol)
      bn       == Bottleneck3(maxX, l1, l2, l3)
  IN  [emit |-> Emitted(rate, vol),
       caps |-> <<l1, l2, l3>>,
       maxX |-> maxX,
       opp  |-> [type |-> "triangle", assets |-> <<e.asset>>,
                 base |-> baseCurrency, direction |-> "ccw",
                 legs |-> <<Leg(bridge, "buy", baseCurrency),
                            Leg(xBase, "buy", e.asset),
                            Leg(xIrt, "sell", e.asset)>>,
                 rate |-> rate, grossPct |-> grossPct, feePct |-> totalFee,
                 netPct |-> netPct, maxVolumeIRT |-> vol,
                 expectedProfitIRT |-> profit, bottleneckLeg |-> bn]]

\* What one iteration of the loop over entries pushes: cw first, then ccw.
TrianglePushes(e, bridge, baseCurrency, totalFee) ==
  LET cw  == cwCandidate(e, bridge, baseCurrency, totalFee)
      ccw == ccwCandidate(e, bridge, baseCurrency, totalFee)
  IN  (IF cw.emit THEN <<cw.opp>> ELSE <<>>)
        \o (IF ccw.emit THEN <<ccw.opp>> ELSE <<>>)

BridgeNeverMissing(ps, baseCurrency) == FALSE

\* if (!bridge) return [];
BridgeMissing(ps, baseCurrency) == ~IdxHas(ps, baseCurrency, "IRT")

findTriangles(ps, baseCurrency, feeRatePct) ==
  IF BridgeMissing(ps, baseCurrency) THEN <<>>
  ELSE LET bridge   == IdxGet(ps, baseCurrency, "IRT")
           entries  == buildAssetEntries(ps, baseCurrency)
           totalFee == TriangleFee(feeRatePct)
       IN  \* bridge.bestBid is read in the first iteration of the loop
           IF Len(entries) > 0 /\ IsUndefined(bridge) THEN TypeError
           ELSE Flatten([i \in 1..Len(entries) |->
                           TrianglePushes(entries[i], bridge, baseCurrency,
                                          totalFee)])

(***************************************************************************)
(* Strategy 2 - Cross-pair (4 legs).                                       *)
(***************************************************************************)
CrossFee(feeRatePct) == Mul(Num(4), feeRatePct)

TopK == 60

DefaultMaxResults == 200

SlackPct == 5

sellRatio(e) == Div(e.base.bestBid, e.irt.bestAsk)

buyRatio(e) == Div(e.irt.bestBid, e.base.bestAsk)

RankCapUncapped(n) == n

\* const K = Math.min(entries.length, 60);
RankCap(n) == IntMin(n, TopK)

SelfPairNeverSkipped(seller, buyer) == FALSE

\* if (seller.asset === buyer.asset) continue;
SelfPair(seller, buyer) == seller.asset = buyer.asset

\* if (netPct < -5) continue;
Hopeless(netPct) == Lt(netPct, Num(-SlackPct))

crossCandidate(seller, buyer, baseCurrency, totalFee) ==
  LET rate     == Mul(sellRatio(seller), buyRatio(buyer))
      grossPct == GrossPct(rate)
      netPct   == NetPct(grossPct, totalFee)
      l1       == seller.irt.bestAskQty
      l2       == seller.base.bestBidQty
      l3       == IF Gt(seller.base.bestBid, Zero)
                  THEN Div(Mul(buyer.base.bestAskQty, buyer.base.bestAsk),
                           seller.base.bestBid)
                  ELSE Zero
      l4       == IF Gt(seller.base.bestBid, Zero)
                  THEN Div(Mul(buyer.irt.bestBidQty, buyer.base.bestAsk),
                           seller.base.bestBid)
                  ELSE Zero
      maxX     == MathMin(<<l1, l2, l3, l4>>)
      vol      == Mul(maxX, seller.irt.bestAsk)
      profit   == Profit(netPct, vol)
      bn       == Bottleneck4(maxX, l1, l2, l3, l4)
  IN  [emit |-> /\ ~SelfPair(seller, buyer)
                /\ ~Hopeless(netPct)
                /\ ~(~isFinite(rate) \/ Le(vol, Zero)),
       caps |-> <<l1, l2, l3, l4>>,
       maxX |-> maxX,
       opp  |-> [type |-> "cross", assets |-> <<seller.asset, buyer.asset>>,
                 base |-> baseCurrency, direction |-> "cross",
                 legs |-> <<Leg(seller.irt, "buy", seller.asset),
                            Leg(seller.base, "sell", seller.asset),
                            Leg(buyer.base, "buy", buyer.asset),
                            Leg(buyer.irt, "sell", buyer.asset)>>,
                 rate |-> rate, grossPct |-> grossPct, feePct |-> totalFee,
                 netPct |-> netPct, maxVolumeIRT |-> vol,
                 expectedProfitIRT |-> profit, bottleneckLeg |-> bn]]

NetKeys(opps) == [i \in 1..Len(opps) |-> opps[i].netPct]

SortByNetAscending(opps) ==
  SortDesc(opps, [i \in 1..Len(opps) |-> Sub(Zero, opps[i].netPct)])

\* results.sort((a, b) => b.netPct - a.netPct)
SortByNet(opps) == SortDesc(opps, NetKeys(opps))

\* The nested loops over bySell and byBuy, in iteration order.
CrossPushes(bySell, byBuy, baseCurrency, totalFee) ==
  LET nb   == Len(byBuy)
      cand == [k \in 1..(Len(bySell) * nb) |->
                 crossCandidate(bySell[((k - 1) \div nb) + 1],
                                byBuy[((k - 1) % nb) + 1],
                                baseCurrency, totalFee)]
      kept == SelectSeq(cand, LAMBDA c : c.emit)
  IN  [k \in 1..Len(kept) |-> kept[k].opp]

findCrossPairs(ps, baseCurrency, feeRatePct, maxResults) ==
  LET entries  == buildAssetEntries(ps, baseCurrency)
      totalFee == CrossFee(feeRatePct)
      K        == RankCap(Len(entries))
      bySell   == Slice(SortDesc(entries,
                    [i \in 1..Len(entries) |-> sellRatio(entries[i])]), K)
      byBuy    == Slice(SortDesc(entries,
                    [i \in 1..Len(entries) |-> buyRatio(entries[i])]), K)
      results  == CrossPushes(bySell, byBuy, baseCurrency, totalFee)
  IN  Slice(SortByNet(results), maxResults)

(***************************************************************************)
(* Combined finder.                                                        *)
(***************************************************************************)
findAllOpportunities(ps, baseCurrency, feeRatePct) ==
  LET triangles == findTriangles(ps, baseCurrency, feeRatePct)
      crosses   == findCrossPairs(ps, baseCurrency, feeRatePct,
                                  DefaultMaxResults)
  IN  IF IsThrown(triangles) THEN TypeError
      ELSE SortByNet(triangles \o crosses)

(***************************************************************************)
(* Snapshots.  A snapshot is the MarketPair list parseAllPairs hands to    *)
(* the finders: one record per symbol, symbols distinct, prices finite and *)
(* positive, quantities finite and non-negative.                           *)
(***************************************************************************)
MaxQty == 2

MaxResultsBound == 2

MarketPair(asset, quote, bid, bidQty, ask, askQty) ==
  [symbol     |-> asset \o quote,
   asset      |-> asset,
   quote      |-> quote,
   bestBid    |-> bid,
   bestBidQty |-> bidQty,
   bestAsk    |-> ask,
   bestAskQty |-> askQty]

BASE == "USDT"

Assets == {"X", "Y", "Z"}

\* A balanced market: every cycle has rate 1 and every leg the same depth.
IrtPrice == Num(20)

BasePrice == Num(1)

FullQty == Num(MaxQty)

BridgeQty == Num(MaxQty)

FlatBook ==
  << MarketPair("X", "IRT", IrtPrice, FullQty, IrtPrice, FullQty),
     MarketPair("X", BASE, BasePrice, FullQty, BasePrice, FullQty),
     MarketPair("Y", "IRT", IrtPrice, FullQty, IrtPrice, FullQty),
     MarketPair("Y", BASE, BasePrice, FullQty, BasePrice, FullQty),
     MarketPair(BASE, "IRT", IrtPrice, BridgeQty, IrtPrice, BridgeQty),
     MarketPair("Z", "IRT", IrtPrice, FullQty, IrtPrice, FullQty),
     MarketPair("Z", BASE, BasePrice, FullQty, BasePrice, FullQty) >>

\* The end-to-end example: X/IRT 990/1000 depth 10, X/USDT 1.05/1.06 depth
\* 10, USDT/IRT 990/1000 with bid depth 1000.
ExampleBook ==
  << MarketPair("X", "IRT", Num(990), Num(10), Num(1000), Num(10)),
     MarketPair("X", BASE, R(105, 100), Num(10), R(106, 100), Num(10)),
     MarketPair(BASE, "IRT", Num(990), Num(1000), Num(1000), Num(1000)) >>

BaseBooks == {FlatBook, ExampleBook}

Symbols == {FlatBook[i].symbol : i \in 1..Len(FlatBook)}

PriceFields == {"bestBid", "bestAsk"}

QtyFields == {"bestBidQty", "bestAskQty"}

\* The other price a pair may quote: 5% under par against IRT, double par
\* against the bridge.
AltPrice(sym) ==
  IF sym \in {a \o "IRT" : a \in Assets \cup {BASE}} THEN Num(19) ELSE Num(2)

NoEdit == [kind |-> "none", sym |-> "", field |-> "", val |-> Zero]

Edits ==
  {NoEdit}
    \cup {[kind |-> "reverse", sym |-> "", field |-> "", val |-> Zero]}
    \cup {[kind |-> "drop", sym |-> s, field |-> "", val |-> Zero] :
            s \in Symbols}
    \cup {[kind |-> "set", sym |-> s, field |-> f, val |-> AltPrice(s)] :
            s \in Symbols, f \in PriceFields}
    \cup {[kind |-> "set", sym |-> s, field |-> f, val |-> Num(q)] :
            s \in Symbols, f \in QtyFields, q \in 0..MaxQty}

Reverse(s) == [i \in 1..Len(s) |-> s[Len(s) + 1 - i]]

ApplyEdit(e, ps) ==
  CASE e.kind = "none"    -> ps
    [] e.kind = "reverse" -> Reverse(ps)
    [] e.kind = "drop"    -> SelectSeq(ps, LAMBDA p : p.symbol # e.sym)
    [] e.kind = "set"     ->
         [i \in 1..Len(ps) |->
            IF ps[i].symbol = e.sym
            THEN [ps[i] EXCEPT ![e.field] = e.val] ELSE ps[i]]

\* Snapshots: a base book with up to two departures from it.
Snapshots ==
  {ApplyEdit(e2, ApplyEdit(e1, b)) : b \in BaseBooks, e1 \in Edits, e2 \in Edits}

\* Per-trade fee in percent: none, and the default 0.35.
Fees == {Zero, R(35, 100)}

MaxResultsArgs == (0..MaxResultsBound) \cup {DefaultMaxResults}

NoArgs == [baseCurrency |-> "", feeRatePct |-> Zero, maxResults |-> 0]

(***************************************************************************)
(* Parsing.  The raw order-book response is a JSON value.  Strings that    *)
(* the parser inspects (keys, price and quantity tokens) are sequences of  *)
(* one-character strings; the other JSON shapes are records tagged with    *)
(* their kind.                                                             *)
(***************************************************************************)
RECURSIVE Join(_)
Join(cs) == IF cs = <<>> THEN "" ELSE Head(cs) \o Join(Tail(cs))

\* String.prototype.endsWith
endsWith(cs, suffix) ==
  /\ Len(cs) >= Len(suffix)
  /\ SubSeq(cs, Len(cs) - Len(suffix) + 1, Len(cs)) = suffix

\* String.prototype.slice(0, -k)
SliceEnd(cs, k) == SubSeq(cs, 1, Len(cs) - k)

\* parseSymbol returning null.
NullSymbol == [asset |-> "", quote |-> ""]

parseSymbol(symbol) ==
  IF Len(symbol) > 4 /\ endsWith(symbol, <<"U", "S", "D", "T">>)
    THEN [asset |-> Join(SliceEnd(symbol, 4)), quote |-> "USDT"]
  ELSE IF Len(symbol) > 3 /\ endsWith(symbol, <<"I", "R", "T">>)
    THEN [asset |-> Join(SliceEnd(symbol, 3)), quote |-> "IRT"]
  ELSE NullSymbol

\* Values of Number(...) that are not finite.  NaN compares false with
\* everything; Infinity is greater than zero.
NaN == [n |-> 0, d |-> 0]

Infinity == [n |-> 1, d |-> 0]

Neg(x) == [n |-> 0 - x.n, d |-> x.d]

\* x > 0 on a Number that may be NaN or an infinity.
Positive(x) == x.n > 0

Digits == {ToString(k) : k \in 0..9}

DigitVal(c) == CHOOSE k \in 0..9 : ToString(k) = c

IsDigits(cs) == \A i \in 1..Len(cs) : cs[i] \in Digits

RECURSIVE DigitsValue(_)
DigitsValue(cs) ==
  IF cs = <<>> THEN 0
  ELSE 10 * DigitsValue(SubSeq(cs, 1, Len(cs) - 1)) + DigitVal(cs[Len(cs)])

RECURSIVE Pow10(_)
Pow10(k) == IF k = 0 THEN 1 ELSE 10 * Pow10(k - 1)

\* An unsigned StringNumericLiteral: Infinity, or decimal digits with an
\* optional fraction.  Anything else is NaN.
UnsignedNumber(cs) ==
  LET dots == {i \in 1..Len(cs) : cs[i] = "."}
  IN  IF cs = <<"I", "n", "f", "i", "n", "i", "t", "y">> THEN Infinity
      ELSE IF dots = {} THEN
        IF cs # <<>> /\ IsDigits(cs) THEN Num(DigitsValue(cs)) ELSE NaN
      ELSE
        LET dot   == CHOOSE i \in dots : TRUE
            whole == SubSeq(cs, 1, dot - 1)
            frac  == SubSeq(cs, dot + 1, Len(cs))
        IN  IF /\ Cardinality(dots) = 1
               /\ Len(cs) > 1
               /\ IsDigits(whole)
               /\ IsDigits(frac)
            THEN R(DigitsValue(whole) * Pow10(Len(frac)) + DigitsValue(frac),
                   Pow10(Len(frac)))
            ELSE NaN

\* Number(string) for a string without white space: the empty string is 0.
StringToNumber(cs) ==
  IF cs = <<>> THEN Zero
  ELSE IF Head(cs) = "-" THEN Neg(UnsignedNumber(Tail(cs)))
  ELSE IF Head(cs) = "+" THEN UnsignedNumber(Tail(cs))
  ELSE UnsignedNumber(cs)

\* JSON tokens found where a price or a quantity is expected.
Str(cs) == [kind |-> "string", chars |-> cs]

JsonNull == [kind |-> "null", chars |-> <<>>]

UndefinedToken == [kind |-> "undefined", chars |-> <<>>]

\* Number(v): undefined is NaN, null is 0.
ToNumber(tok) ==
  CASE tok.kind = "undefined" -> NaN
    [] tok.kind = "null"      -> Zero
    [] tok.kind = "string"    -> StringToNumber(tok.chars)

\* level[k] (0-based in the source) of an array: undefined past its end.
ElementAt(level, k) ==
  IF k <= Len(level.items) THEN level.items[k] ELSE UndefinedToken

\* isFinite(q) && q > 0 ? q : 0
ClampQtyKeepsNegative(q) == IF isFinite(q) THEN q ELSE Zero

ClampQty(q) == IF isFinite(q) /\ Positive(q) THEN q ELSE Zero

NoPair == MarketPair("", "", Zero, Zero, Zero, Zero)

\* One iteration of the loop over Object.entries(data): the entry is
\* skipped, pushes a pair, or reads an index of null (TypeError).
ParseEntry(e) ==
  LET parsed == parseSymbol(e.key)
      bids   == e.value.bids
      asks   == e.value.asks
      skip   == [outcome |-> "skip", pair |-> NoPair]
      bestBid    == ToNumber(ElementAt(bids.items[1], 1))
      bestBidQty == ToNumber(ElementAt(bids.items[1], 2))
      bestAsk    == ToNumber(ElementAt(asks.items[1], 1))
      bestAskQty == ToNumber(ElementAt(asks.items[1], 2))
  IN  IF \/ e.key = <<"s", "t", "a", "t", "u", "s">>
         \/ e.value.kind = "null"
         \/ e.value.kind # "object" THEN skip
      ELSE IF parsed = NullSymbol THEN skip
      ELSE IF \/ bids.kind = "undefined" \/ Len(bids.items) = 0
              \/ asks.kind = "undefined" \/ Len(asks.items) = 0 THEN skip
      ELSE IF bids.items[1].kind = "null" \/ asks.items[1].kind = "null"
        THEN [outcome |-> "throw", pair |-> NoPair]
      ELSE IF ~Positive(bestBid) \/ ~Positive(bestAsk) THEN skip
      ELSE IF ~isFinite(bestBid) \/ ~isFinite(bestAsk) THEN skip
      ELSE [outcome |-> "push",
            pair |-> [symbol     |-> Join(e.key),
                      asset      |-> parsed.asset,
                      quote      |-> parsed.quote,
                      bestBid    |-> bestBid,
                      bestBidQty |-> ClampQty(bestBidQty),
                      bestAsk    |-> bestAsk,
                      bestAskQty |-> ClampQty(bestAskQty)]]

\* Object.entries(data): the own entries of an object, the indexed
\* characters of a string; null has none to give (TypeError).
ObjectEntries(data) ==
  IF data.kind = "string"
  THEN [i \in 1..Len(data.chars) |->
          [key   |-> <<ToString(i - 1)>>,
           value |-> [kind |-> "string",
                      bids |-> [kind |-> "undefined", items |-> <<>>],
                      asks |-> [kind |-> "undefined", items |-> <<>>]]]]
  ELSE data.entries

\* Raw responses.  An object of up to MaxEntries entries with distinct keys:
\* the last entry is any key with any value, the entries before it come
\* from a short list.  A level is [price, quantity], a shorter array, or
\* null; a side is missing, empty, or holds one level.
MaxEntries == 2

Chars(k) ==
  CASE k = "status"  -> <<"s", "t", "a", "t", "u", "s">>
    [] k = "XIRT"    -> <<"X", "I", "R", "T">>
    [] k = "XUSDT"   -> <<"X", "U", "S", "D", "T">>
    [] k = "USDTIRT" -> <<"U", "S", "D", "T", "I", "R", "T">>
    [] k = "YIRT"    -> <<"Y", "I", "R", "T">>
    [] k = "ZIRT"    -> <<"Z", "I", "R", "T">>
    [] k = "IRT"     -> <<"I", "R", "T">>
    [] k = "USDT"    -> <<"U", "S", "D", "T">>
    [] k = "20"      -> <<"2", "0">>
    [] k = "2"       -> <<"2">>
    [] k = "0"       -> <<"0">>
    [] k = "-1"      -> <<"-", "1">>
    [] k = "1.5"     -> <<"1", ".", "5">>
    [] k = "abc"     -> <<"a", "b", "c">>
    [] k = "Infinity" -> <<"I", "n", "f", "i", "n", "i", "t", "y">>
    [] k = ""        -> <<>>

PriceTokens == {Str(Chars(k)) : k \in {"20", "0", "-1", "abc", "Infinity"}}

QtyTokens ==
  {Str(Chars(k)) : k \in {"2", "0", "-1", "abc", "Infinity", "1.5", ""}}
    \cup {JsonNull}

ArrayOf(items) == [kind |-> "array", items |-> items]

NullLevel == [kind |-> "null", items |-> <<>>]

Levels ==
  {ArrayOf(<<p, q>>) : p \in PriceTokens, q \in QtyTokens}
    \cup {ArrayOf(<<Str(Chars("20"))>>), ArrayOf(<<>>), NullLevel}

MissingSide == [kind |-> "undefined", items |-> <<>>]

Sides == {ArrayOf(<<l>>) : l \in Levels} \cup {ArrayOf(<<>>), MissingSide}

Book(bids, asks) == [kind |-> "object", bids |-> bids, asks |-> asks]

GoodSide == ArrayOf(<<ArrayOf(<<Str(Chars("20")), Str(Chars("2"))>>)>>)

RawValues ==
  {Book(b, a) : b \in Sides, a \in Sides}
    \cup {[kind |-> k, bids |-> MissingSide, asks |-> MissingSide] :
            k \in {"null", "string"}}

LastKeys == {"status", "XIRT", "XUSDT", "USDTIRT", "IRT", "USDT"}

LastEntries == {[key |-> Chars(k), value |-> v] : k \in LastKeys, v \in RawValues}

LeadEntries ==
  { [key |-> Chars("YIRT"), value |-> Book(GoodSide, GoodSide)],
    [key |-> Chars("ZIRT"), value |-> Book(ArrayOf(<<NullLevel>>), GoodSide)],
    [key |-> Chars("status"),
     value |-> [kind |-> "string", bids |-> MissingSide,
                asks |-> MissingSide]] }

DistinctKeys(es) ==
  \A i \in 1..Len(es) : \A j \in 1..Len(es) : es[i].key = es[j].key => i = j

RawObjects ==
  {[kind |-> "object", chars |-> <<>>, entries |-> es] :
     es \in {lead \o <<last>> :
               lead \in UNION {[1..m -> LeadEntries] : m \in 0..(MaxEntries - 1)},
               last \in LastEntries}}

RawInputs ==
  {d \in RawObjects : DistinctKeys(d.entries)}
    \cup {[kind |-> "null", chars |-> <<>>, entries |-> <<>>],
          [kind |-> "string", chars |-> Chars("abc"), entries |-> <<>>]}

parseAllPairs(data) ==
  IF data.kind = "null" THEN [threw |-> TRUE, pairs |-> <<>>]
  ELSE
    LET entries == ObjectEntries(data)
        each    == [i \in 1..Len(entries) |-> ParseEntry(entries[i])]
        pushed  == SelectSeq(each, LAMBDA r : r.outcome = "push")
    IN  IF \E i \in 1..Len(each) : each[i].outcome = "throw"
        THEN [threw |-> TRUE, pairs |-> <<>>]
        ELSE [threw |-> FALSE, pairs |-> [i \in 1..Len(pushed) |-> pushed[i].pair]]

(***************************************************************************)
(* The state machine: a snapshot, and the call made on it.  The finders    *)
(* are pure and keep nothing between calls, so a run is one snapshot and   *)
(* one call on it, as in a scan (parse, then one detection pass).          *)
(***************************************************************************)
\* The scanner is not running.
ScannerIdle ==
  /\ clock = 0
  /\ scanCount = 0
  /\ scans = <<>>
  /\ timeline = <<>>
  /\ settled = <<>>
  /\ main = "idle"
  /\ nextFire = 0
  /\ ONCE = TRUE
  /\ INTERVAL_S = 0

Init ==
  /\ ScannerIdle
  /\ pairs \in Snapshots
  /\ called = "none"
  /\ args = NoArgs
  /\ result = <<>>
  /\ threw = FALSE

\* The finders only read `pairs`: the index is a new Map, the entries a new
\* array, and the rankings sort spread copies of it. A variant that ranks in
\* place leaves the caller's array reordered.
PairsRankedInPlace(ps) == Reverse(ps)

PairsAfterCall(ps) == ps

\* The call returns r, or leaves no result when it threw.
Returns(r) ==
  /\ threw' = IsThrown(r)
  /\ result' = IF IsThrown(r) THEN <<>> ELSE r

CallFindTriangles ==
  /\ called = "none"
  /\ \E fee \in Fees :
    /\ called' = "findTriangles"
    /\ args' = [baseCurrency |-> BASE, feeRatePct |-> fee, maxResults |-> 0]
    /\ Returns(findTriangles(pairs, BASE, fee))
    /\ pairs' = PairsAfterCall(pairs)
    /\ UNCHANGED scanVars

CallFindCrossPairs ==
  /\ called = "none"
  /\ \E fee \in Fees, maxResults \in MaxResultsArgs :
    /\ called' = "findCrossPairs"
    /\ args' = [baseCurrency |-> BASE, feeRatePct |-> fee,
                maxResults |-> maxResults]
    /\ Returns(findCrossPairs(pairs, BASE, fee, maxResults))
    /\ pairs' = PairsAfterCall(pairs)
    /\ UNCHANGED scanVars

CallFindAllOpportunities ==
  /\ called = "none"
  /\ \E fee \in Fees :
    /\ called' = "findAllOpportunities"
    /\ args' = [baseCurrency |-> BASE, feeRatePct |-> fee, maxResults |-> 0]
    /\ Returns(findAllOpportunities(pairs, BASE, fee))
    /\ pairs' = PairsAfterCall(pairs)
    /\ UNCHANGED scanVars

Next ==
  \/ CallFindTriangles
  \/ CallFindCrossPairs
  \/ CallFindAllOpportunities

Spec == Init /\ [][Next]_vars

(***************************************************************************)
(* parseAllPairs as a call of its own: the response is the argument, the   *)
(* pair list the result.                                                   *)
(***************************************************************************)
CallParseAllPairs ==
  /\ called = "none"
  /\ \E data \in RawInputs :
    /\ called' = "parseAllPairs"
    /\ args' = [baseCurrency |-> "", feeRatePct |-> Zero, maxResults |-> 0,
                data |-> data]
    /\ threw' = parseAllPairs(data).threw
    /\ result' = parseAllPairs(data).pairs
    /\ UNCHANGED <<pairs, scanVars>>

InitParse ==
  /\ ScannerIdle
  /\ pairs = <<>>
  /\ called = "none"
  /\ args = NoArgs
  /\ result = <<>>
  /\ threw = FALSE

NextParse == CallParseAllPairs

SpecParse == InitParse /\ [][NextParse]_vars

(***************************************************************************)
(* Wide snapshots: markets with as many bridgeable assets as the ranking   *)
(* cap, or one more, so that findCrossPairs has something to prune.  The   *)
(* market is flat and only the assets in `live` have depth; asset ws       *)
(* quotes a worse sell ratio than every other asset and asset wb a worse   *)
(* buy ratio, each still within the slack of a round trip at par.          *)
(***************************************************************************)
WideAsset(i) == "A" \o ToString(i)

WeakAsk == Num(21)

WeakBaseAsk == R(21, 20)

WidePairs(i, ws, wb, live) ==
  LET qty == IF i \in live THEN FullQty ELSE Zero
  IN  << MarketPair(WideAsset(i), "IRT", IrtPrice, qty,
                    IF i = ws THEN WeakAsk ELSE IrtPrice, qty),
         MarketPair(WideAsset(i), BASE, BasePrice, qty,
                    IF i = wb THEN WeakBaseAsk ELSE BasePrice, qty) >>

WideBook(n, ws, wb, live) ==
  Flatten([i \in 1..n |-> WidePairs(i, ws, wb, live)])
    \o << MarketPair(BASE, "IRT", IrtPrice, BridgeQty, IrtPrice, BridgeQty) >>

\* <<number of assets, weakest seller, weakest buyer>>
WideShapes == {<<TopK, 1, TopK>>, <<TopK + 1, 1, TopK>>, <<TopK + 1, TopK, 1>>}

WideSnapshots ==
  {WideBook(w[1], w[2], w[3], {1, 2, w[1] - 1, w[1]}) : w \in WideShapes}

\* Narrow snapshots: the flat three-asset book with one departure.
NarrowSnapshots == {ApplyEdit(e, FlatBook) : e \in Edits}

InitTopK ==
  /\ ScannerIdle
  /\ pairs \in WideSnapshots \cup NarrowSnapshots
  /\ called = "none"
  /\ args = NoArgs
  /\ result = <<>>
  /\ threw = FALSE

SpecTopK == InitTopK /\ [][Next]_vars

(***************************************************************************)
(* The scanner loop (scripts/analyze.ts).  main() awaits one scan and, in  *)
(* continuous mode, arms an interval timer whose callback awaits a scan.   *)
(* scan() reads the clock, counts itself and then parks at two awaits, the *)
(* fetch and the body read; what follows the second await runs without     *)
(* interruption.  Time is counted in seconds.                              *)
(***************************************************************************)
MaxClock == 4

MaxScans == 3

Intervals == {1, 2}

FEE_PCT == R(35, 100)

\* The seconds field of Date.prototype.toISOString(), two digits, and the
\* analyzer's reading of it back (new Date(ts).getTime()).
toISOString(t) == <<ToString((t \div 10) % 10), ToString(t % 10)>>

DateParse(ts) == DigitsValue(ts)

\* Bodies the exchange may answer with: the JSON null, a response without
\* books, and a response with the three books of one triangle.
GoodBook == Book(GoodSide, GoodSide)

Responses ==
  { [kind |-> "null", chars |-> <<>>, entries |-> <<>>],
    [kind |-> "object", chars |-> <<>>,
     entries |-> << [key |-> Chars("status"),
                     value |-> [kind |-> "string", bids |-> MissingSide,
                                asks |-> MissingSide]] >>],
    [kind |-> "object", chars |-> <<>>,
     entries |-> << [key |-> Chars("XIRT"), value |-> GoodBook],
                    [key |-> Chars("XUSDT"), value |-> GoodBook],
                    [key |-> Chars("USDTIRT"), value |-> GoodBook] >>] }

InitScan ==
  /\ clock = 0
  /\ scanCount = 0
  /\ scans = <<>>
  /\ timeline = <<>>
  /\ settled = <<>>
  /\ main = "start"
  /\ nextFire = 0
  /\ ONCE \in BOOLEAN
  /\ INTERVAL_S \in Intervals
  /\ pairs = <<>>
  /\ called = "none"
  /\ args = NoArgs
  /\ result = <<>>
  /\ threw = FALSE

\* const now = new Date(); scanCount++; ... await fetch(API_URL)
StartScan ==
  /\ scanCount' = scanCount + 1
  /\ scans' = Append(scans, [now |-> clock, pc |-> "fetch"])

InFlight == {id \in 1..Len(scans) : scans[id].pc \in {"fetch", "json"}}

\* main(): await scan()
MainStart ==
  /\ main = "start"
  /\ StartScan
  /\ main' = "firstScan"
  /\ UNCHANGED <<clock, timeline, settled, nextFire, ONCE, INTERVAL_S>>
  /\ UNCHANGED finderVars

TimerDue == main = "interval" /\ clock = nextFire /\ scanCount < MaxScans

\* The interval callback: it starts a scan whether or not earlier ones
\* have settled.
TimerFires ==
  /\ TimerDue
  /\ StartScan
  /\ nextFire' = nextFire + INTERVAL_S
  /\ UNCHANGED <<clock, timeline, settled, main, ONCE, INTERVAL_S>>
  /\ UNCHANGED finderVars

\* A second passes; a due timer fires before time moves on.
Tick ==
  /\ main \in {"firstScan", "interval"}
  /\ clock < MaxClock
  /\ ~TimerDue
  /\ clock' = clock + 1
  /\ UNCHANGED <<scanCount, scans, timeline, settled, main, nextFire,
                 ONCE, INTERVAL_S>>
  /\ UNCHANGED finderVars

\* What main() does once the scan it awaits has settled: nothing for the
\* scans of the interval callback (which catches and logs a rejection);
\* after the first scan main returns (--once), arms the timer, or, when
\* the scan rejected, ends the process (main().catch -> process.exit(1)).
MainAfter(id, outcome) ==
  IF main = "firstScan" /\ id = 1
  THEN IF outcome = "threw" THEN main' = "exited" /\ nextFire' = nextFire
       ELSE IF ONCE THEN main' = "done" /\ nextFire' = nextFire
       ELSE main' = "interval" /\ nextFire' = clock + INTERVAL_S
  ELSE UNCHANGED <<main, nextFire>>

Settles(id, outcome) ==
  /\ scans' = [scans EXCEPT ![id].pc = "done"]
  /\ settled' = Append(settled, [id |-> id, outcome |-> outcome])
  /\ MainAfter(id, outcome)

\* catch (err) { ...; return { ok: false, error: msg }; }
ReturnsNotOk(id) ==
  /\ Settles(id, "failed")
  /\ UNCHANGED timeline

\* The awaited fetch settles: it rejects, answers with a status that is
\* not ok, or answers ok and scan goes on to await resp.json().
FetchSettles ==
  /\ main \in {"firstScan", "interval"}
  /\ \E id \in InFlight : \E how \in {"rejected", "notOk", "ok"} :
       /\ scans[id].pc = "fetch"
       /\ IF how = "ok"
          THEN /\ scans' = [scans EXCEPT ![id].pc = "json"]
               /\ UNCHANGED <<timeline, settled, main, nextFire>>
          ELSE ReturnsNotOk(id)
  /\ UNCHANGED <<clock, scanCount, ONCE, INTERVAL_S>>
  /\ UNCHANGED finderVars

\* fs.writeFileSync would replace the file by the one line.
writeFileSync(file, line) == <<line>>

\* fs.appendFileSync(timelinePath, JSON.stringify(timelineEntry) + '\n')
appendFileSync(file, line) == Append(file, line)

Unparseable == [kind |-> "invalid", chars |-> <<>>, entries |-> <<>>]

\* The rest of scan() after the body is read: detect, append the timeline
\* line, return { ok: true }.  A TypeError out of the detection leaves
\* scan() before anything is written.
Detect(id, rawData) ==
  LET parsed  == parseAllPairs(rawData)
      allOpps == IF parsed.threw THEN TypeError
                 ELSE findAllOpportunities(parsed.pairs, BASE, FEE_PCT)
  IN  IF parsed.threw \/ IsThrown(allOpps)
      THEN Settles(id, "threw") /\ UNCHANGED timeline
      ELSE /\ timeline' =
                appendFileSync(timeline,
                               [ts        |-> toISOString(scans[id].now),
                                pairCount |-> Len(parsed.pairs),
                                totalOpps |-> Len(allOpps)])
           /\ Settles(id, "ok")

\* The awaited resp.json() settles: it rejects on a body that is not JSON,
\* or yields rawData and the scan runs to its end.
JsonSettles ==
  /\ main \in {"firstScan", "interval"}
  /\ \E id \in InFlight : \E body \in Responses \cup {Unparseable} :
       /\ scans[id].pc = "json"
       /\ IF body = Unparseable THEN ReturnsNotOk(id) ELSE Detect(id, body)
  /\ UNCHANGED <<clock, scanCount, ONCE, INTERVAL_S>>
  /\ UNCHANGED finderVars

\* SIGINT / SIGTERM: clearInterval(timer); process.exit(0)
Shutdown ==
  /\ main = "interval"
  /\ main' = "exited"
  /\ UNCHANGED <<clock, scanCount, scans, timeline, settled, nextFire,
                 ONCE, INTERVAL_S>>
  /\ UNCHANGED finderVars

NextScan ==
  \/ MainStart
  \/ TimerFires
  \/ Tick
  \/ FetchSettles
  \/ JsonSettles
  \/ Shutdown

SpecScan == InitScan /\ [][NextScan]_vars

(***************************************************************************)
(* Properties.  The definitions below read the state only through the     *)
(* snapshot, the arguments of the call and the returned list.              *)
(***************************************************************************)
Returned == {result[i] : i \in 1..Len(result)}

HasPair(asset, quote) ==
  \E i \in 1..Len(pairs) : pairs[i].asset = asset /\ pairs[i].quote = quote

\* Assets with both an IRT pair and a bridge-quoted pair, the bridge excluded.
Bridgeable ==
  {a \in {pairs[i].asset : i \in 1..Len(pairs)} :
     a # BASE /\ HasPair(a, "IRT") /\ HasPair(a, BASE)}

\* Leg capacities of a returned cycle, in units of its first asset, read
\* from the legs of the Opportunity.
Capacities(o) ==
  LET q(k) == o.legs[k].availableQty
      p(k) == o.legs[k].price
  IN  CASE o.direction = "cw"    -> <<q(1), q(2), Div(q(3), p(2))>>
        [] o.direction = "ccw"   -> <<Div(q(1), p(2)), q(2), q(3)>>
        [] o.direction = "cross" ->
             <<q(1), q(2), Div(Mul(q(3), p(3)), p(2)),
               Div(Mul(q(4), p(3)), p(2))>>

\* C1: every returned Opportunity has netPct equal to grossPct minus feePct.
C1_NetIsGrossMinusFee ==
  \A o \in Returned : o.netPct = Sub(o.grossPct, o.feePct)

C1_Witness ==
  /\ called = "findAllOpportunities"
  /\ \E o \in Returned : o.type = "triangle" /\ o.netPct # o.grossPct
  /\ \E o \in Returned : o.type = "cross" /\ o.netPct # o.grossPct

\* C2: the type fixes the leg count and the fee: a triangle has exactly 3
\* legs and feePct = 3 x feeRatePct, a cross exactly 4 legs and feePct =
\* 4 x feeRatePct, and nothing else is returned.
C2_TypeFixesLegsAndFee ==
  \A o \in Returned :
    /\ o.type \in {"triangle", "cross"}
    /\ o.type = "triangle" <=>
         (Len(o.legs) = 3 /\ o.feePct = Mul(Num(3), args.feeRatePct))
    /\ o.type = "cross" <=>
         (Len(o.legs) = 4 /\ o.feePct = Mul(Num(4), args.feeRatePct))

C2_Witness ==
  /\ called = "findAllOpportunities"
  /\ args.feeRatePct # Zero
  /\ \E o \in Returned : o.type = "triangle"
  /\ \E o \in Returned : o.type = "cross"

\* C3: bottleneckLeg indexes a leg whose converted capacity is the minimum
\* over the cycle's legs, and is the lowest index among the legs that tie
\* for that minimum.
C3_BottleneckIsFirstMinimum ==
  \A o \in Returned :
    LET c == Capacities(o)
        b == o.bottleneckLeg + 1
    IN  /\ b \in 1..Len(c)
        /\ Len(c) = Len(o.legs)
        /\ \A j \in 1..Len(c) : Le(c[b], c[j])
        /\ \A j \in 1..(b - 1) : Lt(c[b], c[j])

\* A cross cycle whose legs 2 and 3 (0-based) tie for the minimum, below
\* legs 0 and 1.
C3_Witness ==
  \E o \in Returned :
    /\ o.type = "cross" /\ o.bottleneckLeg = 2
    /\ Capacities(o)[3] = Capacities(o)[4]
    /\ Lt(Capacities(o)[3], Capacities(o)[1])
    /\ Lt(Capacities(o)[3], Capacities(o)[2])

\* C4: findTriangles returns at most 2N opportunities for N bridgeable
\* assets, at most one cw and one ccw per asset; findCrossPairs returns at
\* most maxResults opportunities.
C4_ResultSizes ==
  /\ called = "findTriangles" =>
       /\ Len(result) <= 2 * Cardinality(Bridgeable)
       /\ \A a \in Bridgeable, dir \in {"cw", "ccw"} :
            Cardinality({i \in 1..Len(result) :
                           result[i].assets = <<a>>
                             /\ result[i].direction = dir}) <= 1
       /\ \A o \in Returned : o.direction \in {"cw", "ccw"}
                                /\ o.assets[1] \in Bridgeable
  /\ called = "findCrossPairs" => Len(result) <= args.maxResults

\* The cap cut the list: the uncapped search has more than maxResults.
C4_Witness ==
  /\ called = "findCrossPairs"
  /\ args.maxResults \in 1..MaxResultsBound
  /\ Len(result) = args.maxResults
  /\ Len(findCrossPairs(pairs, BASE, args.feeRatePct, DefaultMaxResults))
       > args.maxResults

\* C5: no returned cross opportunity pairs an asset with itself.
C5_NoSelfPairing ==
  \A o \in Returned : o.type = "cross" => o.assets[1] # o.assets[2]

C5_Witness ==
  /\ called \in {"findCrossPairs", "findAllOpportunities"}
  /\ \E o \in Returned : o.type = "cross"

\* The snapshot has no pair of the bridge currency against IRT.
NoBridgePair == ~HasPair(BASE, "IRT")

\* C6: with no bridge/IRT pair in the snapshot, findTriangles returns the
\* empty list and raises no error, whatever other pairs are present.
C6_TrianglesEmptyWithoutBridge ==
  (called = "findTriangles" /\ NoBridgePair) => (result = <<>> /\ ~threw)

C6_Witness ==
  /\ called = "findTriangles"
  /\ NoBridgePair
  /\ Cardinality(Bridgeable) >= 2
  /\ result = <<>>
  /\ ~threw

\* C7 as claimed: with no bridge/IRT pair in the snapshot, findCrossPairs
\* yields an empty result and raises no error.
C7_CrossEmptyWithoutBridge ==
  (called = "findCrossPairs" /\ NoBridgePair) => (result = <<>> /\ ~threw)

SomeBridgePair == MarketPair(BASE, "IRT", IrtPrice, FullQty, IrtPrice, FullQty)

\* C7 as amended: with no bridge/IRT pair in the snapshot, findCrossPairs
\* raises no error and returns what it returns with that pair present (no
\* leg of a cross cycle trades it); the result is empty when fewer than two
\* assets are bridgeable.
C7_CrossIgnoresBridgePair ==
  (called = "findCrossPairs" /\ NoBridgePair) =>
    /\ ~threw
    /\ Cardinality(Bridgeable) < 2 => result = <<>>
    /\ result = findCrossPairs(Append(pairs, SomeBridgePair), BASE,
                               args.feeRatePct, args.maxResults)
    /\ \A o \in Returned : \A k \in 1..Len(o.legs) :
         o.legs[k].pair # SomeBridgePair.symbol

C7_Witness ==
  /\ called = "findCrossPairs"
  /\ NoBridgePair
  /\ result # <<>>
  /\ ~threw

PairOf(sym) == CHOOSE p \in {pairs[i] : i \in 1..Len(pairs)} : p.symbol = sym

Entries == buildAssetEntries(pairs, BASE)

EntrySet == {Entries[i] : i \in 1..Len(Entries)}

Bridge == IdxGet(pairs, BASE, "IRT")

\* C8: a cycle with a buy leg on a pair whose bestAskQty is 0 computes
\* volume 0 and is absent from the results, however favourable its rate.
C8_ZeroAskQtyExcluded ==
  /\ \A o \in Returned : \A k \in 1..Len(o.legs) :
       o.legs[k].side = "buy" => PairOf(o.legs[k].pair).bestAskQty # Zero
  /\ called # "none" =>
       /\ \A e \in EntrySet :
            ~NoBridgePair =>
              /\ e.irt.bestAskQty = Zero =>
                   cwCandidate(e, Bridge, BASE, TriangleFee(args.feeRatePct))
                     .opp.maxVolumeIRT = Zero
              /\ (Bridge.bestAskQty = Zero \/ e.base.bestAskQty = Zero) =>
                   ccwCandidate(e, Bridge, BASE, TriangleFee(args.feeRatePct))
                     .opp.maxVolumeIRT = Zero
       /\ \A s \in EntrySet, b \in EntrySet :
            (s.asset # b.asset
               /\ (s.irt.bestAskQty = Zero \/ b.base.bestAskQty = Zero)) =>
              crossCandidate(s, b, BASE, CrossFee(args.feeRatePct))
                .opp.maxVolumeIRT = Zero

\* A cw cycle with a profitable rate whose entry pair has no ask depth.
C8_Witness ==
  /\ called = "findTriangles"
  /\ ~NoBridgePair
  /\ \E e \in EntrySet :
       /\ e.irt.bestAskQty = Zero
       /\ Gt(cwCandidate(e, Bridge, BASE, TriangleFee(args.feeRatePct)).opp.netPct, Zero)
       /\ ~\E o \in Returned : o.direction = "cw" /\ o.assets = <<e.asset>>

\* C9: findAllOpportunities returns a permutation of the triangles followed
\* by the crosses, nothing dropped or added, ordered by non-increasing
\* netPct, with opportunities of equal netPct in concatenation order.
C9_MergedSortedStable ==
  called = "findAllOpportunities" =>
    LET cat == findTriangles(pairs, BASE, args.feeRatePct)
                 \o findCrossPairs(pairs, BASE, args.feeRatePct,
                                   DefaultMaxResults)
        at(o) == CHOOSE k \in 1..Len(cat) : cat[k] = o
    IN  /\ ~threw
        /\ Len(result) = Len(cat)
        /\ Cardinality({cat[k] : k \in 1..Len(cat)}) = Len(cat)
        /\ Returned = {cat[k] : k \in 1..Len(cat)}
        /\ \A i \in 1..Len(result) : \A j \in (i + 1)..Len(result) :
             /\ Le(result[j].netPct, result[i].netPct)
             /\ result[i].netPct = result[j].netPct =>
                  at(result[i]) < at(result[j])

\* The sort moved a cross ahead of a triangle, and kept a triangle ahead of
\* a cross of equal netPct.
C9_Witness ==
  /\ called = "findAllOpportunities"
  /\ \E i \in 1..Len(result) : \E j \in (i + 1)..Len(result) :
       /\ result[i].type = "cross" /\ result[j].type = "triangle"
       /\ Gt(result[i].netPct, result[j].netPct)
  /\ \E i \in 1..Len(result) : \E j \in (i + 1)..Len(result) :
       /\ result[i].type = "triangle" /\ result[j].type = "cross"
       /\ result[i].netPct = result[j].netPct

\* The example's pairs, in any order; the ask depth of USDT/IRT is not
\* part of the example.
IsExampleSnapshot ==
  LET fix(p) == IF p.symbol = SomeBridgePair.symbol
                THEN [p EXCEPT !.bestAskQty = Num(1000)] ELSE p
  IN  /\ Len(pairs) = Len(ExampleBook)
      /\ {fix(pairs[i]) : i \in 1..Len(pairs)}
           = {ExampleBook[i] : i \in 1..Len(ExampleBook)}

\* C10: on the example snapshot with fee 0.35, findTriangles returns a cw
\* opportunity for X with rate 1.0395, grossPct 3.95, feePct 1.05, netPct
\* 2.90, executable volume min(10, 10, 1000/1.05) = 10, maxVolumeIRT 10000
\* and expectedProfitIRT 290.
C10_EndToEndExample ==
  (called = "findTriangles" /\ IsExampleSnapshot
     /\ args.feeRatePct = R(35, 100)) =>
    \E o \in Returned :
      /\ o.type = "triangle" /\ o.direction = "cw" /\ o.assets = <<"X">>
      /\ o.rate = R(10395, 10000)
      /\ o.grossPct = R(395, 100)
      /\ o.feePct = R(105, 100)
      /\ o.netPct = R(290, 100)
      /\ Capacities(o) = <<Num(10), Num(10), Div(Num(1000), R(105, 100))>>
      /\ MathMin(Capacities(o)) = Num(10)
      /\ o.maxVolumeIRT = Num(10000)
      /\ o.expectedProfitIRT = Num(290)

C10_Witness ==
  /\ called = "findTriangles"
  /\ pairs = ExampleBook
  /\ args.feeRatePct = R(35, 100)
  /\ \E o \in Returned : o.direction = "cw" /\ o.bottleneckLeg = 0

\* C14: the bridge index has an entry for asset A exactly when the snapshot
\* has both an A/IRT pair and an A/bridge pair and A is not the bridge
\* currency, the entry holding those two pairs; hence every asset named in
\* a returned opportunity has both pairs and is not the bridge currency.
C14_IndexIsBridgeable ==
  /\ {e.asset : e \in EntrySet} = Bridgeable
  /\ Len(Entries) = Cardinality(Bridgeable)
  /\ \A e \in EntrySet :
       /\ e.irt = PairOf(e.asset \o "IRT")
       /\ e.base = PairOf(e.asset \o BASE)
  /\ \A o \in Returned : \A k \in 1..Len(o.assets) :
       /\ o.assets[k] \in Bridgeable
       /\ o.assets[k] # BASE
       /\ HasPair(o.assets[k], "IRT") /\ HasPair(o.assets[k], BASE)

\* An asset with an IRT pair but no bridge-quoted pair, next to bridgeable
\* assets that do produce results.
C14_Witness ==
  /\ called = "findAllOpportunities"
  /\ \E a \in Assets : HasPair(a, "IRT") /\ ~HasPair(a, BASE)
  /\ \E o \in Returned : o.type = "triangle"
  /\ \E o \in Returned : o.type = "cross"

\* C15: for every bridgeable asset and each direction, findTriangles emits
\* the candidate if and only if its rate is finite and its IRT volume is
\* > 0; the sign of netPct plays no part, and every returned triangle has
\* maxVolumeIRT > 0.
C15_TriangleEmittedIffVolume ==
  (called = "findTriangles" /\ ~NoBridgePair) =>
    /\ \A e \in EntrySet :
         LET cw  == cwCandidate(e, Bridge, BASE, TriangleFee(args.feeRatePct)).opp
             ccw == ccwCandidate(e, Bridge, BASE, TriangleFee(args.feeRatePct)).opp
         IN  /\ (cw \in Returned) <=>
                  (isFinite(cw.rate) /\ Gt(cw.maxVolumeIRT, Zero))
             /\ (ccw \in Returned) <=>
                  (isFinite(ccw.rate) /\ Gt(ccw.maxVolumeIRT, Zero))
    /\ \A o \in Returned : Gt(o.maxVolumeIRT, Zero)

\* A returned triangle that loses more than the cross-pair slack of 5%.
C15_Witness ==
  /\ called = "findTriangles"
  /\ \E o \in Returned :
       Lt(o.netPct, Num(-SlackPct)) /\ Gt(o.maxVolumeIRT, Zero)

\* The executable volume of a returned cycle in asset units: the least of
\* its leg capacities.
Executable(o) ==
  LET c == Capacities(o)
  IN  c[CHOOSE b \in 1..Len(c) : \A j \in 1..Len(c) : Le(c[b], c[j])]

\* C17 as claimed: maxVolumeIRT is the executable volume in asset units
\* multiplied by the price of the entry leg, legs[0].price.
C17_VolumeTimesEntryPrice ==
  \A o \in Returned :
    o.maxVolumeIRT = Mul(Executable(o), o.legs[1].price)

\* C17 as amended: for cw triangles and cross cycles maxVolumeIRT is the
\* executable volume times legs[0].price; for ccw triangles, whose entry
\* leg buys the bridge currency, it is the executable volume times the
\* asset's bridge price legs[1].price times legs[0].price.
C17_VolumeInIRT ==
  \A o \in Returned :
    LET maxX == Executable(o)
    IN  IF o.direction = "ccw"
        THEN o.maxVolumeIRT
               = Mul(Mul(maxX, o.legs[2].price), o.legs[1].price)
        ELSE o.maxVolumeIRT = Mul(maxX, o.legs[1].price)

\* A ccw triangle whose asset is not at par with the bridge, with a cw
\* triangle and a cross cycle in the same result.
C17_Witness ==
  /\ called = "findAllOpportunities"
  /\ \E o \in Returned : o.direction = "ccw" /\ o.legs[2].price # Num(1)
  /\ \E o \in Returned : o.direction = "cw"
  /\ \E o \in Returned : o.direction = "cross"

CrossVolume(s, b) ==
  LET toSeller(q) == Div(Mul(q, b.base.bestAsk), s.base.bestBid)
      caps == <<s.irt.bestAskQty, s.base.bestBidQty,
                toSeller(b.base.bestAskQty), toSeller(b.irt.bestBidQty)>>
      least == caps[CHOOSE k \in 1..4 : \A m \in 1..4 : Le(caps[k], caps[m])]
  IN  Mul(least, s.irt.bestAsk)

CrossPasses(s, b, feeRatePct) ==
  /\ s.asset # b.asset
  /\ Gt(CrossVolume(s, b), Zero)
  /\ LET rate == Mul(sellRatio(s), buyRatio(b))
     IN  /\ isFinite(rate)
         /\ ~Lt(Sub(Mul(Sub(rate, Num(1)), Num(100)),
                    Mul(Num(4), feeRatePct)), Num(-SlackPct))

\* C16: findCrossPairs evaluates exactly the ordered pairs of distinct
\* assets (seller, buyer) with the seller among the K best sell ratios and
\* the buyer among the K best buy ratios, K the smaller of the number of
\* bridgeable assets and the cap.  Every returned cross has a seller and a
\* buyer that fewer than K assets outrank on their axis; and, when the
\* result was not cut to maxResults, every passing candidate whose seller
\* and buyer are inside the top K whatever the order of equal ratios is
\* returned - every passing candidate at all when the assets number at most
\* the cap.
C16_TopKRanking ==
  (called = "findCrossPairs") =>
    LET E     == Entries
        n     == Len(E)
        K     == IF n < TopK THEN n ELSE TopK
        sells == [i \in 1..n |-> sellRatio(E[i])]
        buys  == [i \in 1..n |-> buyRatio(E[i])]
        Above(keys, i)  == Cardinality({j \in 1..n : Gt(keys[j], keys[i])})
        Rivals(keys, i) ==
          Cardinality({j \in 1..n : j # i /\ ~Lt(keys[j], keys[i])})
        outSell  == {i \in 1..n : Above(sells, i) >= K}
        outBuy   == {i \in 1..n : Above(buys, i) >= K}
        inSell   == {i \in 1..n : Rivals(sells, i) < K}
        inBuy    == {i \in 1..n : Rivals(buys, i) < K}
        Idx(a)   == CHOOSE i \in 1..n : E[i].asset = a
        Opp(i, j) ==
          crossCandidate(E[i], E[j], BASE, CrossFee(args.feeRatePct)).opp
    IN  /\ \A o \in Returned :
             /\ o.assets[1] # o.assets[2]
             /\ Idx(o.assets[1]) \notin outSell
             /\ Idx(o.assets[2]) \notin outBuy
             /\ o = Opp(Idx(o.assets[1]), Idx(o.assets[2]))
        /\ n <= TopK => inSell = 1..n /\ inBuy = 1..n
        /\ Len(result) < args.maxResults =>
             \A i \in inSell : \A j \in inBuy :
               CrossPasses(E[i], E[j], args.feeRatePct)
                 => Opp(i, j) \in Returned

\* More bridgeable assets than the cap: a seller outranked by TopK others
\* is left out although its cross with a returned buyer passes every
\* filter, and the crosses of the ranked assets are returned.
C16_Witness ==
  /\ called = "findCrossPairs"
  /\ Len(Entries) > TopK
  /\ Len(result) < args.maxResults
  /\ Returned # {}
  /\ LET E == Entries
     IN  \E i \in 1..Len(E) : \E o \in Returned :
           LET j == CHOOSE k \in 1..Len(E) : E[k].asset = o.assets[2]
           IN  /\ CrossPasses(E[i], E[j], args.feeRatePct)
               /\ \A r \in Returned : r.assets[1] # E[i].asset

\* An entry of a raw response has valid best prices: its value is a book
\* whose two sides start with a level array and whose price tokens convert
\* to finite numbers greater than zero.
FirstLevel(side) == side.items[1]

HasValidPrices(e) ==
  /\ e.value.kind = "object"
  /\ \A side \in {e.value.bids, e.value.asks} :
       /\ side.kind = "array" /\ Len(side.items) > 0
       /\ FirstLevel(side).kind = "array"
       /\ Len(FirstLevel(side).items) > 0
       /\ LET price == ToNumber(FirstLevel(side).items[1])
          IN  isFinite(price) /\ Gt(price, Zero)

\* The quantity a level quotes, or zero when it quotes none that is a
\* finite number greater than zero.
QuotedQty(side) ==
  LET q == IF Len(FirstLevel(side).items) >= 2
           THEN ToNumber(FirstLevel(side).items[2]) ELSE NaN
  IN  IF isFinite(q) /\ Gt(q, Zero) THEN q ELSE Zero

RawEntries == args.data.entries

\* C11: every MarketPair emitted by parseAllPairs has finite best prices
\* greater than zero and finite quantities of at least zero; an entry with
\* valid best prices and a parseable symbol is kept whatever its
\* quantities are, an invalid quantity being replaced by 0; and the
\* "status" key never produces a pair.
C11_ParsedPairsValid ==
  (called = "parseAllPairs" /\ ~threw) =>
    /\ \A p \in Returned :
         /\ isFinite(p.bestBid) /\ Gt(p.bestBid, Zero)
         /\ isFinite(p.bestAsk) /\ Gt(p.bestAsk, Zero)
         /\ isFinite(p.bestBidQty) /\ Le(Zero, p.bestBidQty)
         /\ isFinite(p.bestAskQty) /\ Le(Zero, p.bestAskQty)
         /\ p.symbol # "status"
    /\ \A i \in 1..Len(RawEntries) :
         LET e == RawEntries[i]
         IN  (/\ HasValidPrices(e)
              /\ e.key # Chars("status")
              /\ parseSymbol(e.key) # NullSymbol)
               => \E p \in Returned :
                    /\ p.symbol = Join(e.key)
                    /\ p.bestBid = ToNumber(FirstLevel(e.value.bids).items[1])
                    /\ p.bestAsk = ToNumber(FirstLevel(e.value.asks).items[1])
                    /\ p.bestBidQty = QuotedQty(e.value.bids)
                    /\ p.bestAskQty = QuotedQty(e.value.asks)

\* A response with a status entry and a book whose prices are valid, whose
\* bid quantity is negative and whose ask quantity is not a number: one
\* pair is returned, with both quantities 0.
C11_Witness ==
  /\ called = "parseAllPairs" /\ ~threw
  /\ Len(RawEntries) = 2
  /\ RawEntries[1].key = Chars("status")
  /\ HasValidPrices(RawEntries[2])
  /\ FirstLevel(RawEntries[2].value.bids).items
       = <<Str(Chars("20")), Str(Chars("-1"))>>
  /\ FirstLevel(RawEntries[2].value.asks).items
       = <<Str(Chars("20")), Str(Chars("abc"))>>
  /\ Len(result) = 1
  /\ result[1].bestBidQty = Zero /\ result[1].bestAskQty = Zero

\* C12: parseAllPairs never throws, whatever the shape of its input.
C12_ParseNeverThrows ==
  called = "parseAllPairs" => ~threw

SettledAs(outcome) ==
  {k \in 1..Len(settled) : settled[k].outcome = outcome}

C19_ScansAreAtomic ==
  /\ Cardinality(InFlight) <= 1
  /\ \A k \in 1..(Len(settled) - 1) : settled[k].id < settled[k + 1].id
  /\ \A k \in 1..(Len(timeline) - 1) :
       DateParse(timeline[k].ts) <= DateParse(timeline[k + 1].ts)

\* Two scans of the interval timer were in flight together and the later
\* one wrote its line first: the timeline's ts goes backwards.
C19_Witness ==
  \E k \in 1..(Len(timeline) - 1) :
    DateParse(timeline[k].ts) > DateParse(timeline[k + 1].ts)

====
